---- MODULE Spec2Model ----
(***************************************************************************)
(* A model of the concurrency examples of "A Tour of Go Notes"             *)
(* (src/concurrency/concurrency.go and src/sync.Mutex).                    *)
(*                                                                         *)
(* main() runs one of the example functions (all calls are commented out   *)
(* in the source; the model picks which one is uncommented in Init).       *)
(* Goroutines are records with a program counter named after the source    *)
(* line they are about to execute ("L82" is concurrency.go line 82, "M15"  *)
(* is sync.Mutex line 15).  Channels carry a buffer, a closed flag and the *)
(* two wait queues of parked senders and receivers.                        *)
(***************************************************************************)
EXTENDS Integers, Sequences, FiniteSets, TLC

VARIABLES
    scen,     \* the example function main() calls
    gs,       \* goroutines: id -> [pc, st, loc]; 0 is the main goroutine
    chans,    \* channels made so far: name -> [cap, buf, closed, sendq, recvq]
    counter,  \* the SafeCounter: [mu |-> [locked, waitq], v |-> map]
    val,      \* the shared int of unsafeIncrementExample
    out,      \* what has been printed, one tuple per Print call
    fatal     \* "none", or the fatal error that ended the process

vars == <<scen, gs, chans, counter, val, out, fatal>>

-----------------------------------------------------------------------------
(* Bounds and program constants *)

\* number of goroutines the two counter examples spawn (100 in the source)
NumIncs == 3

MAX_CH_BUFFER_CAP == 10

\* make(chan int, 10) in bufferedChannelsExample
BufferedExampleCap == 10

\* endAtIndex := 6 in loopThroughValsUntilChannelClosedEx
LoopEndAtIndex == 6

COUNTER_KEY == "key1"

\* for i := 0; i < 5; i++ in say
SayCount == 5

\* for i := 0; i < 10; i++ in the goroutine of selectEx
SelectExCount == 10

Scenarios ==
    { "goroutineExample",
      "channelExample",
      "bufferedChannelsExample",
      "deadlockExampleOverfilledBufferBlock",
      "deadlockExampleEmptyBufferBlock",
      "deadlockExampleUnbufferedChNoReciever",
      "noDeadlockUnbufferedChannel",
      "testClosedChannelEx",
      "sendingOnClosedChannelPanicEx",
      "loopThroughValsUntilChannelClosedEx",
      "selectEx",
      "safeIncrementMutuxExample",
      "unsafeIncrementExample" }

-----------------------------------------------------------------------------
(* Goroutines *)

\* a goroutine about to execute label p with locals l
NewG(p, l) == [pc |-> p, st |-> "Runnable", loc |-> l]

\* the process is alive: no fatal error, and main() has not returned
Live == fatal = "none" /\ gs[0].st # "Completed"

Min(a, b) == IF a < b THEN a ELSE b

\* the runtime state the channel and mutex primitives transform
RT == [gs |-> gs, chans |-> chans, counter |-> counter, fatal |-> fatal]

-----------------------------------------------------------------------------
(* Channels *)

makechan(size) ==
    [cap |-> size, buf |-> <<>>, closed |-> FALSE, sendq |-> <<>>, recvq |-> <<>>]

\* a receive completes: the value goes to the local dst, the open flag to ok
Deliver(loc, dst, v, ok) == (dst :> v) @@ ("ok" :> ok) @@ loc

\* chansend without the capacity test: a send with no parked receiver
\* always enqueues
chansend_NoCapacityTest(r, t, c, v, next) ==
    LET ch == r.chans[c] IN
    IF ch.closed
    THEN [r EXCEPT !.fatal = "panic: send on closed channel"]
    ELSE IF ch.recvq # <<>>
    THEN LET w == Head(ch.recvq) IN
         [r EXCEPT !.chans[c].recvq = Tail(ch.recvq),
                   !.gs[w.g].st = "Runnable",
                   !.gs[w.g].pc = w.next,
                   !.gs[w.g].loc = Deliver(@, w.dst, v, TRUE),
                   !.gs[t].pc = next]
    ELSE [r EXCEPT !.chans[c].buf = Append(ch.buf, v),
                   !.gs[t].pc = next]

\* chansend without the closed test: a send on a closed channel is treated
\* like a send on an open one
chansend_NoClosedTest(r, t, c, v, next) ==
    LET ch == r.chans[c] IN
    IF ch.recvq # <<>>
    THEN LET w == Head(ch.recvq) IN
         [r EXCEPT !.chans[c].recvq = Tail(ch.recvq),
                   !.gs[w.g].st = "Runnable",
                   !.gs[w.g].pc = w.next,
                   !.gs[w.g].loc = Deliver(@, w.dst, v, TRUE),
                   !.gs[t].pc = next]
    ELSE IF Len(ch.buf) < ch.cap
    THEN [r EXCEPT !.chans[c].buf = Append(ch.buf, v),
                   !.gs[t].pc = next]
    ELSE [r EXCEPT !.chans[c].sendq = Append(ch.sendq, [g |-> t, v |-> v, next |-> next]),
                   !.gs[t].st = "Blocked"]

\* c <- v by goroutine t, which continues at label next.
\*   closed: panic.  A receiver is parked: hand v to it and wake it.
\*   Room in the buffer: enqueue.  Otherwise: park t with v.
chansend(r, t, c, v, next) ==
    LET ch == r.chans[c] IN
    IF ch.closed
    THEN [r EXCEPT !.fatal = "panic: send on closed channel"]
    ELSE IF ch.recvq # <<>>
    THEN LET w == Head(ch.recvq) IN
         [r EXCEPT !.chans[c].recvq = Tail(ch.recvq),
                   !.gs[w.g].st = "Runnable",
                   !.gs[w.g].pc = w.next,
                   !.gs[w.g].loc = Deliver(@, w.dst, v, TRUE),
                   !.gs[t].pc = next]
    ELSE IF Len(ch.buf) < ch.cap
    THEN [r EXCEPT !.chans[c].buf = Append(ch.buf, v),
                   !.gs[t].pc = next]
    ELSE [r EXCEPT !.chans[c].sendq = Append(ch.sendq, [g |-> t, v |-> v, next |-> next]),
                   !.gs[t].st = "Blocked"]

\* chanrecv that dequeues the newest buffered value instead of the oldest
chanrecv_Lifo(r, t, c, dst, next) ==
    LET ch == r.chans[c]
        n == Len(ch.buf)
    IN
    IF ch.closed /\ ch.buf = <<>>
    THEN [r EXCEPT !.gs[t].loc = Deliver(@, dst, 0, FALSE),
                   !.gs[t].pc = next]
    ELSE IF ch.sendq # <<>>
    THEN LET s == Head(ch.sendq) IN
         [r EXCEPT !.chans[c].sendq = Tail(ch.sendq),
                   !.gs[s.g].st = "Runnable",
                   !.gs[s.g].pc = s.next,
                   !.gs[t].loc = Deliver(@, dst, s.v, TRUE),
                   !.gs[t].pc = next]
    ELSE IF ch.buf # <<>>
    THEN [r EXCEPT !.chans[c].buf = SubSeq(ch.buf, 1, n - 1),
                   !.gs[t].loc = Deliver(@, dst, ch.buf[n], TRUE),
                   !.gs[t].pc = next]
    ELSE [r EXCEPT !.chans[c].recvq = Append(ch.recvq, [g |-> t, dst |-> dst, next |-> next]),
                   !.gs[t].st = "Blocked"]

\* chanrecv without the closed test: a receive on an empty channel parks
\* whether or not the channel is closed
chanrecv_NoClosedTest(r, t, c, dst, next) ==
    LET ch == r.chans[c] IN
    IF ch.buf # <<>>
    THEN [r EXCEPT !.chans[c].buf = Tail(ch.buf),
                   !.gs[t].loc = Deliver(@, dst, Head(ch.buf), TRUE),
                   !.gs[t].pc = next]
    ELSE [r EXCEPT !.chans[c].recvq = Append(ch.recvq, [g |-> t, dst |-> dst, next |-> next]),
                   !.gs[t].st = "Blocked"]

\* chanrecv that never parks: a receive on an empty open channel returns the
\* zero value at once
chanrecv_NeverParks(r, t, c, dst, next) ==
    LET ch == r.chans[c] IN
    IF ch.closed /\ ch.buf = <<>>
    THEN [r EXCEPT !.gs[t].loc = Deliver(@, dst, 0, FALSE),
                   !.gs[t].pc = next]
    ELSE IF ch.sendq # <<>>
    THEN LET s == Head(ch.sendq) IN
         IF ch.buf = <<>>
         THEN [r EXCEPT !.chans[c].sendq = Tail(ch.sendq),
                        !.gs[s.g].st = "Runnable",
                        !.gs[s.g].pc = s.next,
                        !.gs[t].loc = Deliver(@, dst, s.v, TRUE),
                        !.gs[t].pc = next]
         ELSE [r EXCEPT !.chans[c].sendq = Tail(ch.sendq),
                        !.chans[c].buf = Append(Tail(ch.buf), s.v),
                        !.gs[s.g].st = "Runnable",
                        !.gs[s.g].pc = s.next,
                        !.gs[t].loc = Deliver(@, dst, Head(ch.buf), TRUE),
                        !.gs[t].pc = next]
    ELSE IF ch.buf # <<>>
    THEN [r EXCEPT !.chans[c].buf = Tail(ch.buf),
                   !.gs[t].loc = Deliver(@, dst, Head(ch.buf), TRUE),
                   !.gs[t].pc = next]
    ELSE [r EXCEPT !.gs[t].loc = Deliver(@, dst, 0, TRUE),
                   !.gs[t].pc = next]

\* chanrecv testing closed before the buffer: a receive on a closed channel
\* returns (0, false) and leaves what is buffered
chanrecv_ClosedFirst(r, t, c, dst, next) ==
    LET ch == r.chans[c] IN
    IF ch.closed
    THEN [r EXCEPT !.gs[t].loc = Deliver(@, dst, 0, FALSE),
                   !.gs[t].pc = next]
    ELSE IF ch.sendq # <<>>
    THEN LET s == Head(ch.sendq) IN
         IF ch.buf = <<>>
         THEN [r EXCEPT !.chans[c].sendq = Tail(ch.sendq),
                        !.gs[s.g].st = "Runnable",
                        !.gs[s.g].pc = s.next,
                        !.gs[t].loc = Deliver(@, dst, s.v, TRUE),
                        !.gs[t].pc = next]
         ELSE [r EXCEPT !.chans[c].sendq = Tail(ch.sendq),
                        !.chans[c].buf = Append(Tail(ch.buf), s.v),
                        !.gs[s.g].st = "Runnable",
                        !.gs[s.g].pc = s.next,
                        !.gs[t].loc = Deliver(@, dst, Head(ch.buf), TRUE),
                        !.gs[t].pc = next]
    ELSE IF ch.buf # <<>>
    THEN [r EXCEPT !.chans[c].buf = Tail(ch.buf),
                   !.gs[t].loc = Deliver(@, dst, Head(ch.buf), TRUE),
                   !.gs[t].pc = next]
    ELSE [r EXCEPT !.chans[c].recvq = Append(ch.recvq, [g |-> t, dst |-> dst, next |-> next]),
                   !.gs[t].st = "Blocked"]

\* dst, ok = <-c by goroutine t, which continues at label next.
\*   closed and empty: (0, false) at once.  A sender is parked: take the head of
\*   the buffer (or the sender's value when there is no buffer), move the
\*   sender's value to the tail, wake the sender.  Buffer non-empty: dequeue.
\*   Otherwise: park t.
chanrecv(r, t, c, dst, next) ==
    LET ch == r.chans[c] IN
    IF ch.closed /\ ch.buf = <<>>
    THEN [r EXCEPT !.gs[t].loc = Deliver(@, dst, 0, FALSE),
                   !.gs[t].pc = next]
    ELSE IF ch.sendq # <<>>
    THEN LET s == Head(ch.sendq) IN
         IF ch.buf = <<>>
         THEN [r EXCEPT !.chans[c].sendq = Tail(ch.sendq),
                        !.gs[s.g].st = "Runnable",
                        !.gs[s.g].pc = s.next,
                        !.gs[t].loc = Deliver(@, dst, s.v, TRUE),
                        !.gs[t].pc = next]
         ELSE [r EXCEPT !.chans[c].sendq = Tail(ch.sendq),
                        !.chans[c].buf = Append(Tail(ch.buf), s.v),
                        !.gs[s.g].st = "Runnable",
                        !.gs[s.g].pc = s.next,
                        !.gs[t].loc = Deliver(@, dst, Head(ch.buf), TRUE),
                        !.gs[t].pc = next]
    ELSE IF ch.buf # <<>>
    THEN [r EXCEPT !.chans[c].buf = Tail(ch.buf),
                   !.gs[t].loc = Deliver(@, dst, Head(ch.buf), TRUE),
                   !.gs[t].pc = next]
    ELSE [r EXCEPT !.chans[c].recvq = Append(ch.recvq, [g |-> t, dst |-> dst, next |-> next]),
                   !.gs[t].st = "Blocked"]

\* close(c) by goroutine t, which continues at label next.
\*   already closed: panic.  Otherwise mark closed, empty both queues and make
\*   every parked goroutine runnable: a receiver resumes past its receive with
\*   (0, false); a sender resumes in its send statement, which then panics in
\*   a step of its own (send on closed channel).
closechan(r, t, c, next) ==
    LET ch == r.chans[c]
        woken == {ch.recvq[k].g : k \in 1..Len(ch.recvq)}
        entry(g) == ch.recvq[CHOOSE k \in 1..Len(ch.recvq) : ch.recvq[k].g = g]
        senders == {ch.sendq[k].g : k \in 1..Len(ch.sendq)}
    IN
    IF ch.closed
    THEN [r EXCEPT !.fatal = "panic: close of closed channel"]
    ELSE [r EXCEPT !.chans[c].closed = TRUE,
                   !.chans[c].recvq = <<>>,
                   !.chans[c].sendq = <<>>,
                   !.gs = [g \in DOMAIN r.gs |->
                             IF g = t THEN [r.gs[g] EXCEPT !.pc = next]
                             ELSE IF g \in woken
                             THEN [r.gs[g] EXCEPT !.st = "Runnable",
                                                  !.pc = entry(g).next,
                                                  !.loc = Deliver(@, entry(g).dst, 0, FALSE)]
                             ELSE IF g \in senders
                             THEN [r.gs[g] EXCEPT !.st = "Runnable"]
                             ELSE r.gs[g]]]

\* a case of a select can proceed at once: a send when the channel is closed
\* (it panics), a receiver is parked or the buffer has room; a receive when
\* the buffer holds a value, a sender is parked or the channel is closed
CaseReady(r, case) ==
    LET ch == r.chans[case.ch] IN
    IF case.dir = "send"
    THEN ch.closed \/ ch.recvq # <<>> \/ Len(ch.buf) < ch.cap
    ELSE ch.buf # <<>> \/ ch.sendq # <<>> \/ ch.closed

ReadyCases(r, ins) ==
    {k \in 1..Len(ins.cases) : CaseReady(r, ins.cases[k])}

\* a select that polls only the case listed first
Choices_FirstListedOnly(r, ins) ==
    IF CaseReady(r, ins.cases[1]) THEN {1}
    ELSE IF ins.def # "none" THEN {0}
    ELSE {}

\* a select whose default case competes with the ready cases
Choices_DefaultCompetes(r, ins) ==
    IF ins.def # "none" THEN ReadyCases(r, ins) \cup {0}
    ELSE ReadyCases(r, ins)

\* what a select may commit to: any one of the ready cases (the runtime picks
\* among them at random); the default case, 0, when none is ready.  Every
\* select of the program has a default case, so a select never parks.
Choices(r, ins) ==
    IF ReadyCases(r, ins) # {} THEN ReadyCases(r, ins)
    ELSE IF ins.def # "none" THEN {0}
    ELSE {}

\* select by goroutine t commits to choice k: the send or receive of case k
\* is carried out and t continues with the case's body; the default case
\* touches no channel
selectgo(r, t, ins, k) ==
    IF k = 0
    THEN [r EXCEPT !.gs[t].pc = ins.def]
    ELSE LET case == ins.cases[k] IN
         IF case.dir = "send"
         THEN chansend(r, t, case.ch, case.v, case.next)
         ELSE chanrecv(r, t, case.ch, case.dst, case.next)

-----------------------------------------------------------------------------
(* Mutex *)

\* Lock that does not wait: the mutex is taken whether or not it is held
Lock_NoWait(r, t, next) ==
    [r EXCEPT !.counter.mu.locked = TRUE,
              !.gs[t].pc = next]

\* counter.mu.Lock() by goroutine t, which continues at label next:
\* take the mutex when it is free, park otherwise
Lock(r, t, next) ==
    IF ~r.counter.mu.locked
    THEN [r EXCEPT !.counter.mu.locked = TRUE,
                   !.gs[t].pc = next]
    ELSE [r EXCEPT !.counter.mu.waitq = Append(r.counter.mu.waitq, t),
                   !.gs[t].st = "Blocked"]

\* counter.mu.Unlock() by goroutine t, which continues at label next: release
\* the mutex and wake one parked goroutine, which tries Lock again
Unlock(r, t, next) ==
    LET q == r.counter.mu.waitq IN
    IF ~r.counter.mu.locked
    THEN [r EXCEPT !.fatal = "fatal error: sync: unlock of unlocked mutex"]
    ELSE IF q = <<>>
    THEN [r EXCEPT !.counter.mu.locked = FALSE,
                   !.gs[t].pc = next]
    ELSE [r EXCEPT !.counter.mu.locked = FALSE,
                   !.counter.mu.waitq = Tail(q),
                   !.gs[t].pc = next,
                   !.gs[Head(q)].st = "Runnable"]

\* counter.v[key], 0 when the key is absent
MapGet(m, key) == IF key \in DOMAIN m THEN m[key] ELSE 0

-----------------------------------------------------------------------------
(* Instructions: what a goroutine does at one label *)

IMake(c, size, next)   == [op |-> "make", ch |-> c, size |-> size, next |-> next]
ISend(c, v, next)      == [op |-> "send", ch |-> c, v |-> v, next |-> next]
IRecv(c, dst, next)    == [op |-> "recv", ch |-> c, dst |-> dst, next |-> next]
IClose(c, next)        == [op |-> "close", ch |-> c, next |-> next]
IGo(entry, loc, next)  == [op |-> "go", entry |-> entry, loc |-> loc, next |-> next]
ILock(next)            == [op |-> "lock", next |-> next]
IUnlock(next)          == [op |-> "unlock", next |-> next]
\* assignments to locals, tests and jumps
ILocal(loc, next)      == [op |-> "local", loc |-> loc, next |-> next]
IPrint(line, next)     == [op |-> "print", line |-> line, next |-> next]
\* counter.v[key] = v
IMapSet(key, v, next)  == [op |-> "mapset", key |-> key, v |-> v, next |-> next]
\* a write to the shared int val
IStore(v, next)        == [op |-> "store", v |-> v, next |-> next]
IRet                   == [op |-> "ret"]
\* select { case ...: ... default: ... }; def is "none" without a default case
ISelect(cases, def)    == [op |-> "select", cases |-> cases, def |-> def]
CaseSend(c, v, next)   == [dir |-> "send", ch |-> c, v |-> v, next |-> next]
CaseRecv(c, dst, next) == [dir |-> "recv", ch |-> c, dst |-> dst, next |-> next]

-----------------------------------------------------------------------------
(* The example functions of concurrency.go: l is the goroutine's locals *)

\* l.s is the string to print, l.ra where say returns to ("goexit" when say
\* is the function of a goroutine)
say(p, l) ==
    CASE p = "L14" -> ILocal(l, IF l.i < SayCount THEN "L15" ELSE "L18")
      [] p = "L15" -> ILocal(l, "L16")
      [] p = "L16" -> IPrint(<<l.s>>, "L17")
      [] p = "L17" -> ILocal([l EXCEPT !.i = l.i + 1], "L14")
      [] p = "L18" -> IF l.ra = "goexit" THEN IRet ELSE ILocal(l, l.ra)

goroutineExample(p, l) ==
    CASE p = "L23" -> IGo("L14", [s |-> "world", i |-> 0, ra |-> "goexit"], "L24")
      [] p = "L24" -> ILocal([s |-> "hello", i |-> 0, ra |-> "L33"], "L14")
      [] p = "L33" -> IRet

channelExample(p, l) ==
    CASE p = "L44" -> IMake("ch", 0, "L46")
      [] p = "L46" -> ILocal([l EXCEPT !.s = <<7, 2, -5, 4, 1>>], "L48")
      [] p = "L48" -> IGo("L63", [s |-> SubSeq(l.s, 1, Len(l.s) \div 2), sum |-> 0, k |-> 0], "L49")
      [] p = "L49" -> IGo("L63", [s |-> SubSeq(l.s, Len(l.s) \div 2 + 1, Len(l.s)), sum |-> 0, k |-> 0], "L52")
      [] p = "L52" -> IRecv("ch", "halfSum1", "L53")
      [] p = "L53" -> IRecv("ch", "halfSum2", "L57")
      [] p = "L57" -> ILocal([l EXCEPT !.sum = l.halfSum1 + l.halfSum2], "L59")
      [] p = "L59" -> IPrint(<<"Value from channel, blocking:", l.sum>>, "L60")
      [] p = "L60" -> IRet

\* sum leaving out the last element of the slice
sum_OffByOne(p, l) ==
    CASE p = "L63" -> ILocal([l EXCEPT !.sum = 0, !.k = 0], "L64")
      [] p = "L64" -> ILocal(l, IF l.k < Len(l.s) - 1 THEN "L65" ELSE "L67")
      [] p = "L65" -> ILocal([l EXCEPT !.sum = l.sum + l.s[l.k + 1], !.k = l.k + 1], "L64")
      [] p = "L67" -> ISend("ch", l.sum, "L68")
      [] p = "L68" -> IRet

sum(p, l) ==
    CASE p = "L63" -> ILocal([l EXCEPT !.sum = 0, !.k = 0], "L64")
      [] p = "L64" -> ILocal(l, IF l.k < Len(l.s) THEN "L65" ELSE "L67")
      [] p = "L65" -> ILocal([l EXCEPT !.sum = l.sum + l.s[l.k + 1], !.k = l.k + 1], "L64")
      [] p = "L67" -> ISend("ch", l.sum, "L68")
      [] p = "L68" -> IRet

bufferedChannelsExample(p, l) ==
    CASE p = "L76" -> IMake("ch", BufferedExampleCap, "L80")
      [] p = "L80" -> ILocal(l, IF l.i < chans["ch"].cap THEN "L81" ELSE "L85")
      [] p = "L81" -> IPrint(<<"Sending element", l.i + 1, l.i>>, "L82")
      [] p = "L82" -> ISend("ch", l.i, "L83")
      [] p = "L83" -> ILocal([l EXCEPT !.i = l.i + 1], "L80")
      [] p = "L85" -> IPrint(<<>>, "L87a")
      [] p = "L87a" -> ILocal([l EXCEPT !.i = 0], "L87")
      [] p = "L87" -> ILocal(l, IF l.i < chans["ch"].cap THEN "L89" ELSE "L91")
      [] p = "L89" -> IRecv("ch", "v", "L89b")
      [] p = "L89b" -> IPrint(<<"Recieving element", l.i + 1, l.v>>, "L90")
      [] p = "L90" -> ILocal([l EXCEPT !.i = l.i + 1], "L87")
      [] p = "L91" -> IRet

deadlockExampleOverfilledBufferBlock(p, l) ==
    CASE p = "L100" -> IMake("ch", 2, "L101")
      [] p = "L101" -> ISend("ch", 1, "L102")
      [] p = "L102" -> ISend("ch", 2, "L103")
      [] p = "L103" -> ISend("ch", 3, "L104")
      [] p = "L104" -> IRecv("ch", "v", "L104b")
      [] p = "L104b" -> IPrint(<<l.v>>, "L105")
      [] p = "L105" -> IRet

deadlockExampleEmptyBufferBlock(p, l) ==
    CASE p = "L109" -> IMake("ch", 1, "L110")
      [] p = "L110" -> IRecv("ch", "v", "L110b")
      [] p = "L110b" -> IPrint(<<l.v>>, "L111")
      [] p = "L111" -> IRet

deadlockExampleUnbufferedChNoReciever(p, l) ==
    CASE p = "L123" -> IMake("ch", 0, "L126")
      [] p = "L126" -> ISend("ch", 1, "L128")
      [] p = "L128" -> IRecv("ch", "v", "L128b")
      [] p = "L128b" -> IPrint(<<l.v>>, "L129")
      [] p = "L129" -> IRet

\* noDeadlockUnbufferedChannel with the send left in the calling goroutine
noDeadlockUnbufferedChannel_SendInline(p, l) ==
    CASE p = "L135" -> IMake("ch", 0, "L138")
      [] p = "L138" -> ILocal(l, "L139")
      [] p = "L139" -> ISend("ch", 1, "L143")
      [] p = "L140" -> IRet
      [] p = "L143" -> IRecv("ch", "v", "L143b")
      [] p = "L143b" -> IPrint(<<l.v>>, "L144")
      [] p = "L144" -> IRet

noDeadlockUnbufferedChannel(p, l) ==
    CASE p = "L135" -> IMake("ch", 0, "L138")
      [] p = "L138" -> IGo("L139", <<>>, "L143")
      [] p = "L139" -> ISend("ch", 1, "L140")
      [] p = "L140" -> IRet
      [] p = "L143" -> IRecv("ch", "v", "L143b")
      [] p = "L143b" -> IPrint(<<l.v>>, "L144")
      [] p = "L144" -> IRet

\* addToChannelThenClose closing the channel a second time
addToChannelThenClose_CloseTwice(p, l) ==
    CASE p = "L167" -> ISend("ch", 1, "L168")
      [] p = "L168" -> IClose("ch", "L169")
      [] p = "L169" -> IClose("ch", "L175")

addToChannelThenClose(p, l) ==
    CASE p = "L167" -> ISend("ch", 1, "L168")
      [] p = "L168" -> IClose("ch", "L169")
      [] p = "L169" -> ILocal(l, "L175")

testClosedChannelEx(p, l) ==
    CASE p = "L172" -> IMake("ch", 1, "L173")
      [] p = "L173" -> ILocal(l, "L167")
      [] p = "L175" -> IRecv("ch", "v", "L176")
      [] p = "L176" -> IPrint(<<l.v, l.ok>>, "L180")
      [] p = "L180" -> IRecv("ch", "v", "L181")
      [] p = "L181" -> IPrint(<<l.v, l.ok>>, "L182")
      [] p = "L182" -> IRet

sendingOnClosedChannelPanicEx(p, l) ==
    CASE p = "L187" -> IMake("ch", 1, "L188")
      [] p = "L188" -> IClose("ch", "L189")
      [] p = "L189" -> ISend("ch", 5, "L190")
      [] p = "L190" -> IRecv("ch", "val", "L191")
      [] p = "L191" -> IPrint(<<l.val>>, "L192")
      [] p = "L192" -> IRet

\* fillChannelToIndex without the deferred close
fillChannelToIndex_NoClose(p, l) ==
    CASE p = "L200" -> ILocal(l, "L201")
      [] p = "L201" -> ILocal([l EXCEPT !.endAtIndex = Min(l.endAtIndex, MAX_CH_BUFFER_CAP)], "L202")
      [] p = "L202" -> ILocal(l, IF l.i < l.endAtIndex THEN "L203" ELSE "L205")
      [] p = "L203" -> ISend("ch", l.i, "L204")
      [] p = "L204" -> ILocal([l EXCEPT !.i = l.i + 1], "L202")
      [] p = "L205" -> ILocal(l, "L205b")
      [] p = "L205b" -> IRet

fillChannelToIndex(p, l) ==
    CASE p = "L200" -> ILocal(l, "L201")
      [] p = "L201" -> ILocal([l EXCEPT !.endAtIndex = Min(l.endAtIndex, MAX_CH_BUFFER_CAP)], "L202")
      [] p = "L202" -> ILocal(l, IF l.i < l.endAtIndex THEN "L203" ELSE "L205")
      [] p = "L203" -> ISend("ch", l.i, "L204")
      [] p = "L204" -> ILocal([l EXCEPT !.i = l.i + 1], "L202")
      [] p = "L205" -> IClose("ch", "L205b")
      [] p = "L205b" -> IRet

loopThroughValsUntilChannelClosedEx(p, l) ==
    CASE p = "L209" -> IMake("ch", MAX_CH_BUFFER_CAP, "L210")
      [] p = "L210" -> ILocal([l EXCEPT !.endAtIndex = LoopEndAtIndex], "L212")
      [] p = "L212" -> IGo("L200", [endAtIndex |-> l.endAtIndex, i |-> 0], "L213")
      [] p = "L213" -> IRecv("ch", "i", "L213b")
      [] p = "L213b" -> ILocal(l, IF l.ok THEN "L214" ELSE "L216")
      [] p = "L214" -> IPrint(<<l.i>>, "L213")
      [] p = "L216" -> IRet

\* fibonacci whose default case advances x and y as well
fibonacci_DefaultAdvances(p, l) ==
    CASE p = "L224" -> ILocal([l EXCEPT !.x = 0, !.y = 1], "L225")
      [] p = "L225" -> ILocal([l EXCEPT !.defaultExecuted = FALSE], "L227")
      [] p = "L227" -> ISelect(<<CaseSend("c", l.x, "L229"), CaseRecv("quit", "_", "L231")>>, "L236")
      [] p = "L229" -> ILocal([l EXCEPT !.x = l.y, !.y = l.x + l.y], "L227")
      [] p = "L231" -> IPrint(<<"quit">>, "L232")
      [] p = "L232" -> ILocal(l, "L255")
      [] p = "L236" -> ILocal(l, IF ~l.defaultExecuted THEN "L237" ELSE "L227")
      [] p = "L237" -> IPrint(<<"no channel ready. Executing default case">>, "L238")
      [] p = "L238" -> ILocal([l EXCEPT !.defaultExecuted = TRUE, !.x = l.y, !.y = l.x + l.y], "L227")

fibonacci(p, l) ==
    CASE p = "L224" -> ILocal([l EXCEPT !.x = 0, !.y = 1], "L225")
      [] p = "L225" -> ILocal([l EXCEPT !.defaultExecuted = FALSE], "L227")
      [] p = "L227" -> ISelect(<<CaseSend("c", l.x, "L229"), CaseRecv("quit", "_", "L231")>>, "L236")
      [] p = "L229" -> ILocal([l EXCEPT !.x = l.y, !.y = l.x + l.y], "L227")
      [] p = "L231" -> IPrint(<<"quit">>, "L232")
      [] p = "L232" -> ILocal(l, "L255")
      [] p = "L236" -> ILocal(l, IF ~l.defaultExecuted THEN "L237" ELSE "L227")
      [] p = "L237" -> IPrint(<<"no channel ready. Executing default case">>, "L238")
      [] p = "L238" -> ILocal([l EXCEPT !.defaultExecuted = TRUE], "L227")

\* selectEx whose goroutine sends on quit without receiving from c first
selectEx_QuitFirst(p, l) ==
    CASE p = "L245" -> IMake("c", 0, "L246")
      [] p = "L246" -> IMake("quit", 0, "L247")
      [] p = "L247" -> IGo("L251", [i |-> 0], "L254")
      [] p = "L248" -> ILocal(l, IF l.i < SelectExCount THEN "L249" ELSE "L251")
      [] p = "L249" -> IRecv("c", "v", "L249b")
      [] p = "L249b" -> IPrint(<<ToString(l.v)>>, "L250")
      [] p = "L250" -> ILocal([l EXCEPT !.i = l.i + 1], "L248")
      [] p = "L251" -> ILocal(l, "L252")
      [] p = "L252" -> ISend("quit", 0, "L253")
      [] p = "L253" -> IRet
      [] p = "L254" -> ILocal(l, "L224")
      [] p = "L255" -> IRet

\* selectEx with the send on quit in a goroutine of its own, started with the
\* receiving one
selectEx_QuitInOwnGoroutine(p, l) ==
    CASE p = "L245" -> IMake("c", 0, "L246")
      [] p = "L246" -> IMake("quit", 0, "L247")
      [] p = "L247" -> IGo("L248", [i |-> 0], "L254")
      [] p = "L248" -> ILocal(l, IF l.i < SelectExCount THEN "L249" ELSE "L251")
      [] p = "L249" -> IRecv("c", "v", "L249b")
      [] p = "L249b" -> IPrint(<<ToString(l.v)>>, "L250")
      [] p = "L250" -> ILocal([l EXCEPT !.i = l.i + 1], "L248")
      [] p = "L251" -> ILocal(l, "L253")
      [] p = "L252" -> ISend("quit", 0, "L253")
      [] p = "L253" -> IRet
      [] p = "L254" -> IGo("L252", [i |-> 0], "L224")
      [] p = "L255" -> IRet

\* selectEx; the goroutine of lines 247-253 starts at L248.  Every line this
\* example writes is text: fmt.Println(<-c) writes the decimal form of the
\* value received.
selectEx(p, l) ==
    CASE p = "L245" -> IMake("c", 0, "L246")
      [] p = "L246" -> IMake("quit", 0, "L247")
      [] p = "L247" -> IGo("L248", [i |-> 0], "L254")
      [] p = "L248" -> ILocal(l, IF l.i < SelectExCount THEN "L249" ELSE "L251")
      [] p = "L249" -> IRecv("c", "v", "L249b")
      [] p = "L249b" -> IPrint(<<ToString(l.v)>>, "L250")
      [] p = "L250" -> ILocal([l EXCEPT !.i = l.i + 1], "L248")
      [] p = "L251" -> ILocal(l, "L252")
      [] p = "L252" -> ISend("quit", 0, "L253")
      [] p = "L253" -> IRet
      [] p = "L254" -> ILocal(l, "L224")
      [] p = "L255" -> IRet

-----------------------------------------------------------------------------
(* The functions of sync.Mutex *)

\* (*counterValue) += 2
Inc_AddTwo(p, l) ==
    CASE p = "M10" -> ILocal([l EXCEPT !.tmp = IF l.p = "shared" THEN val ELSE l.val], "M10b")
      [] p = "M10b" -> IF l.p = "shared"
                       THEN IStore(l.tmp + 2, "M11")
                       ELSE ILocal([l EXCEPT !.val = l.tmp + 2], "M11")
      [] p = "M11" -> IF l.ra = "goexit" THEN IRet ELSE ILocal(l, l.ra)

\* (*counterValue)++ : a read of the int and a write of the int plus one;
\* l.p says whether counterValue points to SafeInc's local val or to the
\* shared val of unsafeIncrementExample, l.ra where Inc returns to
Inc(p, l) ==
    CASE p = "M10" -> ILocal([l EXCEPT !.tmp = IF l.p = "shared" THEN val ELSE l.val], "M10b")
      [] p = "M10b" -> IF l.p = "shared"
                       THEN IStore(l.tmp + 1, "M11")
                       ELSE ILocal([l EXCEPT !.val = l.tmp + 1], "M11")
      [] p = "M11" -> IF l.ra = "goexit" THEN IRet ELSE ILocal(l, l.ra)

\* SafeInc without the Lock and Unlock calls
SafeInc_NoLock(p, l) ==
    CASE p = "M15" -> ILocal(l, "M16")
      [] p = "M16" -> ILocal([l EXCEPT !.val = MapGet(counter.v, l.key)], "M17")
      [] p = "M17" -> ILocal([l EXCEPT !.p = "local", !.ra = "M18"], "M10")
      [] p = "M18" -> IMapSet(l.key, l.val, "M19")
      [] p = "M19" -> ILocal(l, "M20")
      [] p = "M20" -> IRet

SafeInc(p, l) ==
    CASE p = "M15" -> ILock("M16")
      [] p = "M16" -> ILocal([l EXCEPT !.val = MapGet(counter.v, l.key)], "M17")
      [] p = "M17" -> ILocal([l EXCEPT !.p = "local", !.ra = "M18"], "M10")
      [] p = "M18" -> IMapSet(l.key, l.val, "M19")
      [] p = "M19" -> IUnlock("M20")
      [] p = "M20" -> IRet

\* GetValue that unlocks a mutex it has not locked
GetValue_UnlockOnly(p, l) ==
    CASE p = "M23" -> ILocal(l, "M25")
      [] p = "M25" -> ILocal(l, "M26")
      [] p = "M26" -> ILocal([l EXCEPT !.result = MapGet(counter.v, l.key)], "M27")
      [] p = "M27" -> IUnlock("M39b")

GetValue(p, l) ==
    CASE p = "M23" -> ILock("M25")
      [] p = "M25" -> ILocal(l, "M26")
      [] p = "M26" -> ILocal([l EXCEPT !.result = MapGet(counter.v, l.key)], "M27")
      [] p = "M27" -> IUnlock("M39b")

safeIncrementMutuxExample(p, l) ==
    CASE p = "M32" -> ILocal([l EXCEPT !.i = 0], "M33")
      [] p = "M33" -> ILocal(l, IF l.i < NumIncs THEN "M34" ELSE "M36")
      [] p = "M34" -> IGo("M15", [key |-> COUNTER_KEY, val |-> 0, tmp |-> 0, p |-> "local", ra |-> "M18"], "M35")
      [] p = "M35" -> ILocal([l EXCEPT !.i = l.i + 1], "M33")
      [] p = "M36" -> ILocal(l, "M39")
      [] p = "M39" -> ILocal([l EXCEPT !.key = COUNTER_KEY], "M23")
      [] p = "M39b" -> IPrint(<<"Counter value after safe increment using mutex:", l.result>>, "M40")
      [] p = "M40" -> IRet

unsafeIncrementExample(p, l) ==
    CASE p = "M43" -> IStore(0, "M44")
      [] p = "M44" -> ILocal(l, IF l.i < NumIncs THEN "M45" ELSE "M47")
      [] p = "M45" -> IGo("M10", [tmp |-> 0, p |-> "shared", ra |-> "goexit"], "M46")
      [] p = "M46" -> ILocal([l EXCEPT !.i = l.i + 1], "M44")
      [] p = "M47" -> ILocal(l, "M50")
      [] p = "M50" -> IPrint(<<"Counter value after unsafe increment with race conditions:", val>>, "M51")
      [] p = "M51" -> IRet

-----------------------------------------------------------------------------
(* The program *)

\* the instruction at label p for a goroutine with locals l
Code(p, l) ==
    CASE p \in {"L14", "L15", "L16", "L17", "L18"} -> say(p, l)
      [] p \in {"L23", "L24", "L33"} -> goroutineExample(p, l)
      [] p \in {"L44", "L46", "L48", "L49", "L52", "L53", "L57", "L59", "L60"} -> channelExample(p, l)
      [] p \in {"L63", "L64", "L65", "L67", "L68"} -> sum(p, l)
      [] p \in {"L76", "L80", "L81", "L82", "L83", "L85", "L87a", "L87", "L89", "L89b", "L90", "L91"} -> bufferedChannelsExample(p, l)
      [] p \in {"L100", "L101", "L102", "L103", "L104", "L104b", "L105"} -> deadlockExampleOverfilledBufferBlock(p, l)
      [] p \in {"L109", "L110", "L110b", "L111"} -> deadlockExampleEmptyBufferBlock(p, l)
      [] p \in {"L123", "L126", "L128", "L128b", "L129"} -> deadlockExampleUnbufferedChNoReciever(p, l)
      [] p \in {"L135", "L138", "L139", "L140", "L143", "L143b", "L144"} -> noDeadlockUnbufferedChannel(p, l)
      [] p \in {"L167", "L168", "L169"} -> addToChannelThenClose(p, l)
      [] p \in {"L172", "L173", "L175", "L176", "L180", "L181", "L182"} -> testClosedChannelEx(p, l)
      [] p \in {"L187", "L188", "L189", "L190", "L191", "L192"} -> sendingOnClosedChannelPanicEx(p, l)
      [] p \in {"L200", "L201", "L202", "L203", "L204", "L205", "L205b"} -> fillChannelToIndex(p, l)
      [] p \in {"L209", "L210", "L212", "L213", "L213b", "L214", "L216"} -> loopThroughValsUntilChannelClosedEx(p, l)
      [] p \in {"L224", "L225", "L227", "L229", "L231", "L232", "L236", "L237", "L238"} -> fibonacci(p, l)
      [] p \in {"L245", "L246", "L247", "L248", "L249", "L249b", "L250", "L251", "L252", "L253", "L254", "L255"} -> selectEx(p, l)
      [] p \in {"M10", "M10b", "M11"} -> Inc(p, l)
      [] p \in {"M15", "M16", "M17", "M18", "M19", "M20"} -> SafeInc(p, l)
      [] p \in {"M23", "M25", "M26", "M27"} -> GetValue(p, l)
      [] p \in {"M32", "M33", "M34", "M35", "M36", "M39", "M39b", "M40"} -> safeIncrementMutuxExample(p, l)
      [] p \in {"M43", "M44", "M45", "M46", "M47", "M50", "M51"} -> unsafeIncrementExample(p, l)

\* main() calls one example: its first label and the locals it declares
main(s) ==
    CASE s = "goroutineExample" -> NewG("L23", <<>>)
      [] s = "channelExample" -> NewG("L44", [s |-> <<>>, halfSum1 |-> 0, halfSum2 |-> 0, sum |-> 0])
      [] s = "bufferedChannelsExample" -> NewG("L76", [i |-> 0])
      [] s = "deadlockExampleOverfilledBufferBlock" -> NewG("L100", <<>>)
      [] s = "deadlockExampleEmptyBufferBlock" -> NewG("L109", <<>>)
      [] s = "deadlockExampleUnbufferedChNoReciever" -> NewG("L123", <<>>)
      [] s = "noDeadlockUnbufferedChannel" -> NewG("L135", <<>>)
      [] s = "testClosedChannelEx" -> NewG("L172", <<>>)
      [] s = "sendingOnClosedChannelPanicEx" -> NewG("L187", <<>>)
      [] s = "loopThroughValsUntilChannelClosedEx" -> NewG("L209", [endAtIndex |-> 0])
      [] s = "selectEx" -> NewG("L245", [x |-> 0, y |-> 0, defaultExecuted |-> FALSE])
      [] s = "safeIncrementMutuxExample" -> NewG("M32", [i |-> 0, key |-> "", result |-> 0])
      [] s = "unsafeIncrementExample" -> NewG("M43", [i |-> 0])

Init ==
    /\ scen \in Scenarios
    /\ gs = (0 :> main(scen))
    /\ chans = <<>>
    /\ counter = [mu |-> [locked |-> FALSE, waitq |-> <<>>], v |-> <<>>]
    /\ val = 0
    /\ out = <<>>
    /\ fatal = "none"

\* goroutine t is scheduled and its next instruction is an op
Runs(t, op) ==
    /\ Live
    /\ gs[t].st = "Runnable"
    /\ Code(gs[t].pc, gs[t].loc).op = op

Instr(t) == Code(gs[t].pc, gs[t].loc)

Apply(r) ==
    /\ gs' = r.gs
    /\ chans' = r.chans
    /\ counter' = r.counter
    /\ fatal' = r.fatal

Make(t) ==
    /\ Runs(t, "make")
    /\ chans' = (Instr(t).ch :> makechan(Instr(t).size)) @@ chans
    /\ gs' = [gs EXCEPT ![t].pc = Instr(t).next]
    /\ UNCHANGED <<scen, counter, val, out, fatal>>

Send(t) ==
    /\ Runs(t, "send")
    /\ Apply(chansend(RT, t, Instr(t).ch, Instr(t).v, Instr(t).next))
    /\ UNCHANGED <<scen, val, out>>

Recv(t) ==
    /\ Runs(t, "recv")
    /\ Apply(chanrecv(RT, t, Instr(t).ch, Instr(t).dst, Instr(t).next))
    /\ UNCHANGED <<scen, val, out>>

Close(t) ==
    /\ Runs(t, "close")
    /\ Apply(closechan(RT, t, Instr(t).ch, Instr(t).next))
    /\ UNCHANGED <<scen, val, out>>

Select(t) ==
    /\ Runs(t, "select")
    /\ \E k \in Choices(RT, Instr(t)) : Apply(selectgo(RT, t, Instr(t), k))
    /\ UNCHANGED <<scen, val, out>>

\* go f(...): a new goroutine; the spawner goes on without waiting
Go(t) ==
    /\ Runs(t, "go")
    /\ LET id == Cardinality(DOMAIN gs)
       IN  gs' = [g \in DOMAIN gs \cup {id} |->
                    IF g = id THEN NewG(Instr(t).entry, Instr(t).loc)
                    ELSE IF g = t THEN [gs[t] EXCEPT !.pc = Instr(t).next]
                    ELSE gs[g]]
    /\ UNCHANGED <<scen, chans, counter, val, out, fatal>>

MutexLock(t) ==
    /\ Runs(t, "lock")
    /\ Apply(Lock(RT, t, Instr(t).next))
    /\ UNCHANGED <<scen, val, out>>

MutexUnlock(t) ==
    /\ Runs(t, "unlock")
    /\ Apply(Unlock(RT, t, Instr(t).next))
    /\ UNCHANGED <<scen, val, out>>

Local(t) ==
    /\ Runs(t, "local")
    /\ gs' = [gs EXCEPT ![t].pc = Instr(t).next, ![t].loc = Instr(t).loc]
    /\ UNCHANGED <<scen, chans, counter, val, out, fatal>>

Println(t) ==
    /\ Runs(t, "print")
    /\ gs' = [gs EXCEPT ![t].pc = Instr(t).next]
    /\ out' = Append(out, Instr(t).line)
    /\ UNCHANGED <<scen, chans, counter, val, fatal>>

MapSet(t) ==
    /\ Runs(t, "mapset")
    /\ counter' = [counter EXCEPT !.v = (Instr(t).key :> Instr(t).v) @@ @]
    /\ gs' = [gs EXCEPT ![t].pc = Instr(t).next]
    /\ UNCHANGED <<scen, chans, val, out, fatal>>

Store(t) ==
    /\ Runs(t, "store")
    /\ val' = Instr(t).v
    /\ gs' = [gs EXCEPT ![t].pc = Instr(t).next]
    /\ UNCHANGED <<scen, chans, counter, out, fatal>>

\* the function of goroutine t returns: the goroutine is complete; when it
\* is the main goroutine the process exits
Ret(t) ==
    /\ Runs(t, "ret")
    /\ gs' = [gs EXCEPT ![t].st = "Completed"]
    /\ UNCHANGED <<scen, chans, counter, val, out, fatal>>

\* a runtime without the check: the process hangs
checkdead_Hang == FALSE /\ UNCHANGED vars

\* the runtime's check: no goroutine can run and main has not returned
checkdead ==
    /\ Live
    /\ \A t \in DOMAIN gs : gs[t].st # "Runnable"
    /\ fatal' = "fatal error: all goroutines are asleep - deadlock!"
    /\ UNCHANGED <<scen, gs, chans, counter, val, out>>

Next ==
    \/ \E t \in DOMAIN gs : Make(t)
    \/ \E t \in DOMAIN gs : Send(t)
    \/ \E t \in DOMAIN gs : Recv(t)
    \/ \E t \in DOMAIN gs : Close(t)
    \/ \E t \in DOMAIN gs : Select(t)
    \/ \E t \in DOMAIN gs : Go(t)
    \/ \E t \in DOMAIN gs : MutexLock(t)
    \/ \E t \in DOMAIN gs : MutexUnlock(t)
    \/ \E t \in DOMAIN gs : Local(t)
    \/ \E t \in DOMAIN gs : Println(t)
    \/ \E t \in DOMAIN gs : MapSet(t)
    \/ \E t \in DOMAIN gs : Store(t)
    \/ \E t \in DOMAIN gs : Ret(t)
    \/ checkdead

Spec == Init /\ [][Next]_vars

FairSpec == Spec /\ WF_vars(Next)

\* one step of goroutine t
GoroutineStep(t) ==
    /\ t \in DOMAIN gs
    /\ \/ Make(t) \/ Send(t) \/ Recv(t) \/ Close(t) \/ Select(t) \/ Go(t)
       \/ MutexLock(t) \/ MutexUnlock(t) \/ Local(t) \/ Println(t)
       \/ MapSet(t) \/ Store(t) \/ Ret(t)

\* the scheduler is fair to every goroutine: a goroutine that stays runnable
\* eventually runs, and a deadlock is eventually reported
SchedSpec ==
    /\ Spec
    /\ \A t \in 0..NumIncs : WF_vars(GoroutineStep(t))
    /\ WF_vars(checkdead)

-----------------------------------------------------------------------------
(* Properties *)

Running(s) == scen = s

MainDone == gs[0].st = "Completed"

\* the process has ended: main returned or a fatal error was reported
Ended == ~Live

\* <<0, 1, ..., n-1>>
Iota(n) == [k \in 1..n |-> k - 1]

\* goroutine t takes the step
Steps(t) == t \in DOMAIN gs /\ gs'[t] # gs[t]

\* C1: every channel has one of the capacities 0, 1, 2, 10 and never holds
\* more buffered elements than its capacity.
C1_BufferWithinCapacity ==
    \A c \in DOMAIN chans :
        /\ chans[c].cap \in {0, 1, 2, 10}
        /\ Len(chans[c].buf) <= chans[c].cap

\* a send arrived at a full buffer (and was parked instead of enqueued)
C1_Witness ==
    \E c \in DOMAIN chans :
        /\ chans[c].cap > 0
        /\ Len(chans[c].buf) = chans[c].cap
        /\ chans[c].sendq # <<>>

IsLine(x, tag) == Len(x) = 3 /\ x[1] = tag

Tagged(tag) ==
    LET RECURSIVE pick(_)
        pick(k) == IF k = 0 THEN <<>>
                   ELSE IF IsLine(out[k], tag) THEN Append(pick(k - 1), out[k][3])
                   ELSE pick(k - 1)
    IN  pick(Len(out))

\* the values bufferedChannelsExample has sent so far: those announced by
\* the "Sending element" lines, less the one announced and not yet sent
BufferedSent ==
    LET announced == Tagged("Sending element")
    IN  IF gs[0].pc = "L82" THEN SubSeq(announced, 1, Len(announced) - 1) ELSE announced

\* the values bufferedChannelsExample has received so far: those printed by
\* the "Recieving element" lines, and the one received and not yet printed
BufferedReceived ==
    Tagged("Recieving element") \o (IF gs[0].pc = "L89b" THEN <<gs[0].loc.v>> ELSE <<>>)

\* C2: FIFO. In bufferedChannelsExample the values received so far followed by
\* the values still in the buffer are the values sent so far, in the order
\* they were sent, and once the function has returned the values received
\* are 0, 1, ..., 9 in that order.
C2_Fifo ==
    Running("bufferedChannelsExample") /\ "ch" \in DOMAIN chans =>
        /\ BufferedReceived \o chans["ch"].buf = BufferedSent
        /\ BufferedSent = Iota(Len(BufferedSent))
        /\ MainDone => Tagged("Recieving element") = Iota(BufferedExampleCap)

\* all ten values were sent before the first receive, and all ten were received
C2_Witness ==
    /\ Running("bufferedChannelsExample")
    /\ MainDone
    /\ Tagged("Sending element") = Iota(10)
    /\ Tagged("Recieving element") = Iota(10)

SendsOnClosed(t) ==
    /\ Runs(t, "send")
    /\ chans[Instr(t).ch].closed

\* C3: a send on a closed channel panics: the step leaves every channel and
\* the sender as they were (nothing enqueued, the sender neither advanced nor
\* parked) and ends the process with "send on closed channel".  In
\* sendingOnClosedChannelPanicEx the send of 5 is on the closed, empty
\* capacity-1 channel; the receive and the print after it are never reached.
C3_ClosedSend ==
    /\ [][\A t \in DOMAIN gs :
            SendsOnClosed(t) =>
                /\ chans' = chans
                /\ gs' = gs
                /\ fatal' = "panic: send on closed channel"]_vars
    /\ [](Running("sendingOnClosedChannelPanicEx") =>
            /\ gs[0].pc \in {"L187", "L188", "L189"}
            /\ gs[0].st = "Runnable"
            /\ out = <<>>
            /\ "ch" \in DOMAIN chans => chans["ch"].buf = <<>>
            /\ gs[0].pc = "L189" => chans["ch"].closed /\ chans["ch"].cap = 1)

C3_Witness ==
    /\ Running("sendingOnClosedChannelPanicEx")
    /\ gs[0].pc = "L189"
    /\ chans["ch"].closed
    /\ Len(chans["ch"].buf) < chans["ch"].cap
    /\ fatal = "panic: send on closed channel"

ReceivesOnClosedEmpty(t) ==
    /\ Runs(t, "recv")
    /\ chans[Instr(t).ch].closed
    /\ chans[Instr(t).ch].buf = <<>>

\* C4: a receive on a closed channel with an empty buffer completes at once
\* with (0, false): the receiver moves on without parking and the channel
\* is left as it was, so that the same holds for the next receive; a channel
\* that is closed and empty stays closed and empty.  In testClosedChannelEx
\* the second receive yields (0, false).
C4_CloseSentinel ==
    /\ [][\A t \in DOMAIN gs :
            ReceivesOnClosedEmpty(t) /\ Steps(t) =>
                /\ gs'[t].st = "Runnable"
                /\ gs'[t].pc = Instr(t).next
                /\ gs'[t].loc[Instr(t).dst] = 0
                /\ gs'[t].loc.ok = FALSE
                /\ chans' = chans]_vars
    /\ [][\A c \in DOMAIN chans :
            chans[c].closed /\ chans[c].buf = <<>> =>
                chans'[c].closed /\ chans'[c].buf = <<>>]_vars
    /\ [](Running("testClosedChannelEx") /\ Len(out) = 2 => out[2] = <<0, FALSE>>)
    /\ [](Running("testClosedChannelEx") => fatal = "none")

C4_Witness ==
    /\ Running("testClosedChannelEx")
    /\ MainDone
    /\ out = << <<1, TRUE>>, <<0, FALSE>> >>

\* the goroutines main has spawned
Spawned == DOMAIN gs \ {0}

\* the SafeInc goroutines whose write-back counter.v[key] = val is done
Written == {t \in Spawned : gs[t].pc \in {"M19", "M20"}}

AllReturned ==
    /\ Cardinality(Spawned) = NumIncs
    /\ \A t \in Spawned : gs[t].st = "Completed"

\* C5: in safeIncrementMutuxExample no increment is lost: counter.v[key] is
\* the number of SafeInc calls that have written back, and once all NumIncs
\* calls have returned it is NumIncs.
C5_NoLostIncrement ==
    Running("safeIncrementMutuxExample") =>
        /\ MapGet(counter.v, COUNTER_KEY) = Cardinality(Written)
        /\ AllReturned => MapGet(counter.v, COUNTER_KEY) = NumIncs

C5_Witness ==
    /\ Running("safeIncrementMutuxExample")
    /\ AllReturned
    /\ counter.v[COUNTER_KEY] = NumIncs

\* the goroutines between Lock and Unlock of the counter's mutex, in SafeInc
\* (lines 16-19, with the call of Inc) or in GetValue (lines 25-27)
Holders ==
    {t \in DOMAIN gs :
        gs[t].pc \in {"M16", "M17", "M10", "M10b", "M11", "M18", "M19", "M25", "M26", "M27"}}

\* C6: in safeIncrementMutuxExample at most one goroutine is between Lock
\* and Unlock, and the mutex is held exactly when there is one; a goroutine
\* that calls Lock while the mutex is held is parked at the Lock call, and a
\* parked goroutine becomes runnable again only in a step that releases the
\* mutex.
C6_MutualExclusion ==
    /\ [](Running("safeIncrementMutuxExample") =>
            /\ Cardinality(Holders) <= 1
            /\ counter.mu.locked <=> Holders # {}
            /\ \A t \in DOMAIN gs :
                 gs[t].st = "Blocked" =>
                    /\ gs[t].pc \in {"M15", "M23"}
                    /\ \E k \in 1..Len(counter.mu.waitq) : counter.mu.waitq[k] = t)
    /\ [][\A t \in DOMAIN gs :
            Runs(t, "lock") /\ counter.mu.locked /\ Steps(t) =>
                gs'[t].st = "Blocked" /\ gs'[t].pc = gs[t].pc]_vars
    /\ [][\A t \in DOMAIN gs :
            Running("safeIncrementMutuxExample") /\ gs[t].st = "Blocked" /\ Steps(t) =>
                counter.mu.locked /\ ~counter'.mu.locked /\ gs'[t].pc = gs[t].pc]_vars

\* one goroutine holds the mutex while another is parked at its Lock call
C6_Witness ==
    /\ Running("safeIncrementMutuxExample")
    /\ Holders # {}
    /\ \E t \in DOMAIN gs : gs[t].st = "Blocked" /\ gs[t].pc = "M15"

\* C7: in unsafeIncrementExample the shared val never exceeds the number of
\* Inc goroutines, whatever the interleaving of their reads and writes, and
\* neither does the value printed.
C7_UnsafeAtMostN ==
    Running("unsafeIncrementExample") =>
        /\ val \in 0..NumIncs
        /\ \A k \in 1..Len(out) : out[k][2] \in 0..NumIncs

\* a lost update: all NumIncs calls of Inc have returned and val is below NumIncs
C7_Witness ==
    /\ Running("unsafeIncrementExample")
    /\ AllReturned
    /\ val < NumIncs

AllAsleep == \A t \in DOMAIN gs : gs[t].st = "Blocked"

Deadlocked == fatal = "fatal error: all goroutines are asleep - deadlock!"

\* C8: deadlockExampleUnbufferedChNoReciever comes to a state where the only
\* goroutine is blocked in the send of line 126, and that state is reported
\* as a deadlock; the receive and the print of line 128 are never executed.
C8_DeadlockReported ==
    /\ [](Running("deadlockExampleUnbufferedChNoReciever") =>
            /\ gs[0].pc \in {"L123", "L126"}
            /\ DOMAIN gs = {0}
            /\ out = <<>>
            /\ fatal # "none" => Deadlocked /\ AllAsleep)
    /\ (Running("deadlockExampleUnbufferedChNoReciever") ~> (Deadlocked /\ AllAsleep))

C8_Witness ==
    /\ Running("deadlockExampleUnbufferedChNoReciever")
    /\ gs[0].pc = "L126"
    /\ gs[0].st = "Blocked"
    /\ chans["ch"].cap = 0
    /\ Len(chans["ch"].sendq) = 1
    /\ Deadlocked

\* C9 as stated: the scenario on the capacity-2 channel ends with the value 1
\* received (and printed by line 104) and the buffer holding 2, 3.
C9_Original ==
    Running("deadlockExampleOverfilledBufferBlock") /\ Ended =>
        /\ chans["ch"].buf = <<2, 3>>
        /\ out = << <<1>> >>

\* C9 (amended): in deadlockExampleOverfilledBufferBlock the sends of 1 and 2
\* complete without blocking; the send of 3 finds the buffer full, holding
\* 1, 2, and parks; the only receive follows that send in the same goroutine,
\* so no receive occurs, the send of 3 never completes, the buffer keeps
\* holding 1, 2 and nothing is printed.
C9_ThirdSendNeverCompletes ==
    Running("deadlockExampleOverfilledBufferBlock") =>
        /\ gs[0].pc \in {"L100", "L101", "L102", "L103"}
        /\ out = <<>>
        /\ gs[0].pc = "L101" => chans["ch"].buf = <<>> /\ gs[0].st = "Runnable"
        /\ gs[0].pc = "L102" => chans["ch"].buf = <<1>> /\ gs[0].st = "Runnable"
        /\ gs[0].pc = "L103" => chans["ch"].buf = <<1, 2>>
        /\ gs[0].st = "Blocked" =>
              /\ gs[0].pc = "L103"
              /\ chans["ch"].sendq = <<[g |-> 0, v |-> 3, next |-> "L104"]>>
        /\ fatal # "none" => Deadlocked /\ gs[0].st = "Blocked"

C9_Witness ==
    /\ Running("deadlockExampleOverfilledBufferBlock")
    /\ gs[0].st = "Blocked"
    /\ gs[0].pc = "L103"
    /\ chans["ch"].buf = <<1, 2>>
    /\ Deadlocked

\* C10: in loopThroughValsUntilChannelClosedEx the range loop prints 0, 1, 2,
\* 3, 4, 5 in that order and nothing else, whatever was still buffered when
\* the channel was closed; it leaves the loop only on a receive that found
\* the channel closed and empty; no fatal error occurs; and the function
\* returns.
C10_RangeDrains ==
    /\ [](Running("loopThroughValsUntilChannelClosedEx") =>
            /\ fatal = "none"
            /\ Len(out) <= LoopEndAtIndex
            /\ \A k \in 1..Len(out) : out[k] = <<k - 1>>
            /\ gs[0].pc = "L216" =>
                  /\ Len(out) = LoopEndAtIndex
                  /\ chans["ch"].closed
                  /\ chans["ch"].buf = <<>>
                  /\ gs[0].loc.ok = FALSE)
    /\ (Running("loopThroughValsUntilChannelClosedEx") ~> MainDone)

C10_Witness ==
    /\ Running("loopThroughValsUntilChannelClosedEx")
    /\ MainDone
    /\ out = << <<0>>, <<1>>, <<2>>, <<3>>, <<4>>, <<5>> >>

\* the select of fibonacci (line 227) is executed by the main goroutine
FibSelects == Running("selectEx") /\ Runs(0, "select") /\ Steps(0)

\* a receiver is parked on c / a sender is parked on quit
ReceiverWaitsOnC == chans["c"].recvq # <<>>
SenderWaitsOnQuit == chans["quit"].sendq # <<>>

\* C11: a select with exactly one ready case commits to that case.  In
\* fibonacci: with a receiver parked on c and no sender parked on quit the
\* select goes to the body of `c <- x` (line 229); with a sender parked on
\* quit and no receiver parked on c it goes to the body of `<-quit` (line
\* 231), although that case is listed second; in neither case to default.
C11_SelectSingleReady ==
    /\ [][\A t \in DOMAIN gs :
            Runs(t, "select") /\ Steps(t) =>
                \A k \in 1..Len(Instr(t).cases) :
                    ReadyCases(RT, Instr(t)) = {k} => gs'[t].pc = Instr(t).cases[k].next]_vars
    /\ [][FibSelects =>
            /\ ReceiverWaitsOnC /\ ~SenderWaitsOnQuit => gs'[0].pc = "L229"
            /\ SenderWaitsOnQuit /\ ~ReceiverWaitsOnC => gs'[0].pc = "L231"]_vars

\* the select has committed to `<-quit`, the case listed second, and the
\* sender of quit has been released
C11_Witness ==
    /\ Running("selectEx")
    /\ gs[0].pc = "L231"
    /\ gs[1].pc = "L253"

\* C12: in fibonacci a select with no ready case runs default at once: the
\* goroutine goes to line 236 without parking and no channel changes; default
\* runs only when no receiver is parked on c and no sender on quit; and the
\* goroutine calling fibonacci is never blocked.
C12_SelectDefault ==
    /\ [][FibSelects =>
            /\ ~ReceiverWaitsOnC /\ ~SenderWaitsOnQuit =>
                  /\ gs'[0].pc = "L236"
                  /\ gs'[0].st = "Runnable"
                  /\ chans' = chans
            /\ gs'[0].pc = "L236" => ~ReceiverWaitsOnC /\ ~SenderWaitsOnQuit]_vars
    /\ [](Running("selectEx") =>
            /\ gs[0].st # "Blocked"
            /\ \A c \in DOMAIN chans :
                 /\ \A k \in 1..Len(chans[c].sendq) : chans[c].sendq[k].g # 0
                 /\ \A k \in 1..Len(chans[c].recvq) : chans[c].recvq[k].g # 0)

\* default has run (its message is printed once) while the consumer was not
\* waiting
C12_Witness ==
    /\ Running("selectEx")
    /\ \E k \in 1..Len(out) : out[k] = <<"no channel ready. Executing default case">>
    /\ gs[0].pc = "L238"

\* C14: a channel's closed flag never goes back to false; a close of a closed
\* channel would panic, and the program never attempts one: every close is
\* executed on an open channel, so each channel is closed at most once;
\* addToChannelThenClose has closed the channel when it returns and
\* fillChannelToIndex has closed it when its deferred call has run.
C14_CloseOneShot ==
    /\ [][\A c \in DOMAIN chans : chans[c].closed => chans'[c].closed]_vars
    /\ [][\A t \in DOMAIN gs :
            Runs(t, "close") /\ chans[Instr(t).ch].closed =>
                /\ chans' = chans
                /\ gs' = gs
                /\ fatal' = "panic: close of closed channel"]_vars
    /\ [](\A t \in DOMAIN gs : Runs(t, "close") => ~chans[Instr(t).ch].closed)
    /\ [](fatal # "panic: close of closed channel")
    /\ [](\A t \in DOMAIN gs :
            gs[t].pc \in {"L169", "L205b"} => chans["ch"].closed)
    /\ [](\A t \in DOMAIN gs :
            gs[t].pc \in {"L167", "L168", "L200", "L201", "L202", "L203", "L204", "L205"}
                => ~chans["ch"].closed)

\* fillChannelToIndex has returned, its deferred close done, and the channel
\* is still closed after receives
C14_Witness ==
    /\ Running("loopThroughValsUntilChannelClosedEx")
    /\ 1 \in DOMAIN gs
    /\ gs[1].st = "Completed"
    /\ chans["ch"].closed
    /\ Len(out) > 0

\* the sends goroutine t is in the middle of: the send statement or the send
\* cases of the select it is about to execute, or the send it is parked in
SendOps(t) ==
    IF gs[t].st = "Blocked"
    THEN UNION {{[ch |-> c, v |-> chans[c].sendq[k].v, next |-> chans[c].sendq[k].next] :
                    k \in {j \in 1..Len(chans[c].sendq) : chans[c].sendq[j].g = t}} :
                c \in DOMAIN chans}
    ELSE IF ~Live \/ gs[t].st # "Runnable" THEN {}
    ELSE IF Instr(t).op = "send"
    THEN {[ch |-> Instr(t).ch, v |-> Instr(t).v, next |-> Instr(t).next]}
    ELSE IF Instr(t).op = "select"
    THEN {[ch |-> Instr(t).cases[k].ch, v |-> Instr(t).cases[k].v, next |-> Instr(t).cases[k].next] :
            k \in {j \in 1..Len(Instr(t).cases) : Instr(t).cases[j].dir = "send"}}
    ELSE {}

\* the receives goroutine t is in the middle of
RecvOps(t) ==
    IF gs[t].st = "Blocked"
    THEN UNION {{[ch |-> c, dst |-> chans[c].recvq[k].dst, next |-> chans[c].recvq[k].next] :
                    k \in {j \in 1..Len(chans[c].recvq) : chans[c].recvq[j].g = t}} :
                c \in DOMAIN chans}
    ELSE IF ~Live \/ gs[t].st # "Runnable" THEN {}
    ELSE IF Instr(t).op = "recv"
    THEN {[ch |-> Instr(t).ch, dst |-> Instr(t).dst, next |-> Instr(t).next]}
    ELSE IF Instr(t).op = "select"
    THEN {[ch |-> Instr(t).cases[k].ch, dst |-> Instr(t).cases[k].dst, next |-> Instr(t).cases[k].next] :
            k \in {j \in 1..Len(Instr(t).cases) : Instr(t).cases[j].dir = "recv"}}
    ELSE {}

\* goroutine t gets past the operation o in this step
Completes(t, o) == gs[t].pc # o.next /\ gs'[t].pc = o.next

\* C15: an unbuffered channel never holds a value; a send on it completes
\* only in a step in which another goroutine's receive on the same channel
\* completes with the value sent, and a receive on it completes only in a
\* step in which another goroutine's send on it completes.
C15_Rendezvous ==
    /\ [](\A c \in DOMAIN chans : chans[c].cap = 0 => chans[c].buf = <<>>)
    /\ [][\A t \in DOMAIN gs : \A o \in SendOps(t) :
            chans[o.ch].cap = 0 /\ Completes(t, o) =>
                \E r \in DOMAIN gs \ {t} : \E q \in RecvOps(r) :
                    /\ q.ch = o.ch
                    /\ Completes(r, q)
                    /\ gs'[r].loc[q.dst] = o.v
                    /\ gs'[r].loc.ok]_vars
    /\ [][\A r \in DOMAIN gs : \A q \in RecvOps(r) :
            chans[q.ch].cap = 0 /\ Completes(r, q) =>
                \E t \in DOMAIN gs \ {r} : \E o \in SendOps(t) :
                    /\ o.ch = q.ch
                    /\ Completes(t, o)
                    /\ gs'[r].loc[q.dst] = o.v]_vars

\* noDeadlockUnbufferedChannel after the rendezvous: the sender is past its
\* send, the receiver holds the value, the channel holds nothing
C15_Witness ==
    /\ Running("noDeadlockUnbufferedChannel")
    /\ gs[0].pc = "L143b"
    /\ gs[0].loc.v = 1
    /\ gs[1].pc = "L140"
    /\ chans["ch"].cap = 0
    /\ chans["ch"].buf = <<>>

\* the lines say("world") has printed
WorldLines == {k \in 1..Len(out) : out[k] = <<"world">>}

\* C16: every spawned goroutine runs to completion or blocks: when
\* goroutineExample or safeIncrementMutuxExample has ended, every goroutine it
\* spawned has returned or is parked, say("world") has printed its SayCount
\* lines, and all NumIncs SafeInc calls have returned.
C16_SpawnedTasksComplete ==
    /\ Running("goroutineExample") /\ Ended =>
          /\ \A t \in Spawned : gs[t].st \in {"Completed", "Blocked"}
          /\ Cardinality(WorldLines) = SayCount
    /\ Running("safeIncrementMutuxExample") /\ Ended =>
          /\ \A t \in Spawned : gs[t].st \in {"Completed", "Blocked"}
          /\ AllReturned

\* C17: safeIncrementMutuxExample prints the number of goroutines it spawned:
\* the value main reads with GetValue(COUNTER_KEY) is NumIncs.
C17_PrintsTotal ==
    Running("safeIncrementMutuxExample") /\ gs[0].pc = "M40" =>
        /\ gs[0].loc.result = NumIncs
        /\ out = << <<"Counter value after safe increment using mutex:", NumIncs>> >>

\* C18: both single-goroutine buffered examples end in deadlock.  In
\* deadlockExampleOverfilledBufferBlock the sends of lines 101 and 102
\* complete without parking and the send of line 103 parks with the buffer
\* full; in deadlockExampleEmptyBufferBlock the receive of line 110 parks on
\* the empty open channel.  The parked goroutine is never resumed, nothing is
\* printed, and each example reaches the reported deadlock with every
\* goroutine blocked.
C18_BufferedDeadlocks ==
    /\ [](Running("deadlockExampleOverfilledBufferBlock") =>
            /\ DOMAIN gs = {0}
            /\ out = <<>>
            /\ ~MainDone
            /\ gs[0].st = "Blocked" =>
                  /\ gs[0].pc = "L103"
                  /\ chans["ch"].cap = 2
                  /\ chans["ch"].buf = <<1, 2>>
            /\ fatal # "none" => Deadlocked /\ AllAsleep)
    /\ [][Running("deadlockExampleOverfilledBufferBlock") /\ gs[0].pc \in {"L101", "L102"} =>
            /\ gs'[0].st = "Runnable"
            /\ gs'[0].pc = Instr(0).next
            /\ chans'["ch"].buf = Append(chans["ch"].buf, Instr(0).v)]_vars
    /\ [](Running("deadlockExampleEmptyBufferBlock") =>
            /\ DOMAIN gs = {0}
            /\ out = <<>>
            /\ gs[0].pc \in {"L109", "L110"}
            /\ gs[0].st = "Blocked" =>
                  /\ gs[0].pc = "L110"
                  /\ chans["ch"].cap = 1
                  /\ chans["ch"].buf = <<>>
                  /\ ~chans["ch"].closed
                  /\ chans["ch"].recvq = <<[g |-> 0, dst |-> "v", next |-> "L110b"]>>
            /\ fatal # "none" => Deadlocked /\ AllAsleep)
    /\ [][(Running("deadlockExampleOverfilledBufferBlock") \/ Running("deadlockExampleEmptyBufferBlock"))
            /\ gs[0].st = "Blocked" => gs' = gs /\ chans' = chans /\ out' = out]_vars
    /\ (Running("deadlockExampleOverfilledBufferBlock") ~> (Deadlocked /\ AllAsleep))
    /\ (Running("deadlockExampleEmptyBufferBlock") ~> (Deadlocked /\ AllAsleep))

\* deadlockExampleEmptyBufferBlock parked in the receive of line 110 and
\* reported as a deadlock
C18_Witness ==
    /\ Running("deadlockExampleEmptyBufferBlock")
    /\ gs[0].st = "Blocked"
    /\ gs[0].pc = "L110"
    /\ Len(chans["ch"].recvq) = 1
    /\ Deadlocked

\* C19: channelExample has no fatal error; when main is past both receives
\* both sum goroutines are past their sends, (halfSum1, halfSum2) is (9, 0) or
\* (0, 9) and the total is 9; the only line printed is the total 9; and main
\* returns.
C19_ChannelExample ==
    /\ [](Running("channelExample") =>
            /\ fatal = "none"
            /\ gs[0].st = "Blocked" => gs[0].pc \in {"L52", "L53"}
            /\ gs[0].pc \in {"L57", "L59", "L60"} =>
                  /\ <<gs[0].loc.halfSum1, gs[0].loc.halfSum2>> \in {<<9, 0>>, <<0, 9>>}
                  /\ gs[0].loc.halfSum1 + gs[0].loc.halfSum2 = 9
                  /\ Spawned = {1, 2}
                  /\ \A t \in Spawned : gs[t].pc = "L68"
            /\ gs[0].pc \in {"L59", "L60"} => gs[0].loc.sum = 9
            /\ out \in {<<>>, << <<"Value from channel, blocking:", 9>> >>}
            /\ MainDone => out # <<>>)
    /\ (Running("channelExample") ~> MainDone)

\* the goroutine summing the second half sent first: halfSum1 = 0, halfSum2 = 9
C19_Witness ==
    /\ Running("channelExample")
    /\ MainDone
    /\ gs[0].loc.halfSum1 = 0
    /\ gs[0].loc.halfSum2 = 9

\* C20: a receive on a closed channel with a non-empty buffer completes with
\* the oldest buffered value and ok = true and removes that value; a receive
\* completes with ok = false only on a closed channel whose buffer was empty,
\* and then yields 0.  In testClosedChannelEx the receive of line 175 yields
\* (1, true) from the closed channel and the first line printed is that pair.
C20_BufferedAfterClose ==
    /\ [][\A t \in DOMAIN gs :
            Runs(t, "recv") /\ Steps(t)
              /\ chans[Instr(t).ch].closed /\ chans[Instr(t).ch].buf # <<>> =>
                /\ gs'[t].pc = Instr(t).next
                /\ gs'[t].loc[Instr(t).dst] = Head(chans[Instr(t).ch].buf)
                /\ gs'[t].loc.ok = TRUE
                /\ chans'[Instr(t).ch].buf = Tail(chans[Instr(t).ch].buf)]_vars
    /\ [][\A t \in DOMAIN gs : \A q \in RecvOps(t) :
            Completes(t, q) /\ gs'[t].loc.ok = FALSE =>
                /\ chans'[q.ch].closed
                /\ chans[q.ch].buf = <<>>
                /\ gs'[t].loc[q.dst] = 0]_vars
    /\ [](Running("testClosedChannelEx") =>
            /\ gs[0].pc = "L176" =>
                  /\ gs[0].loc.v = 1
                  /\ gs[0].loc.ok = TRUE
                  /\ chans["ch"].closed
                  /\ chans["ch"].buf = <<>>
            /\ Len(out) >= 1 => out[1] = <<1, TRUE>>)

\* testClosedChannelEx after the receive of line 175 on the closed channel
C20_Witness ==
    /\ Running("testClosedChannelEx")
    /\ gs[0].pc = "L176"
    /\ gs[0].loc.v = 1
    /\ gs[0].loc.ok
    /\ chans["ch"].closed
    /\ chans["ch"].cap = 1

\* C21: noDeadlockUnbufferedChannel has no fatal error; whether the sender or
\* the receiver reaches the channel first, the one that is first parks and is
\* resumed by the other; main's receive of line 143 yields 1; the only line
\* printed is 1; and main returns.
C21_NoDeadlock ==
    /\ [](Running("noDeadlockUnbufferedChannel") =>
            /\ fatal = "none"
            /\ gs[0].st = "Blocked" =>
                  /\ gs[0].pc = "L143"
                  /\ 1 \in DOMAIN gs
                  /\ gs[1].pc = "L139" /\ gs[1].st = "Runnable"
            /\ gs[0].pc \in {"L143b", "L144"} =>
                  /\ gs[0].loc.v = 1
                  /\ gs[0].loc.ok
                  /\ gs[1].pc = "L140"
            /\ out \in {<<>>, << <<1>> >>}
            /\ MainDone => out = << <<1>> >>)
    /\ (Running("noDeadlockUnbufferedChannel") ~> MainDone)

\* main has received 1, printed it and returned, and the sender has returned
C21_Witness ==
    /\ Running("noDeadlockUnbufferedChannel")
    /\ MainDone
    /\ out = << <<1>> >>
    /\ gs[1].st = "Completed"

\* C22: in safeIncrementMutuxExample a goroutine comes to be between Lock and
\* Unlock only by its own Lock step taking the free mutex, and ceases to be
\* only by its own Unlock step releasing it; every Unlock is executed by the
\* one goroutine that is between its Lock and its Unlock, on a held mutex, so
\* no unlock fails; and the mutex is free whenever no goroutine is in SafeInc
\* or GetValue past its Lock.
C22_UnlockByOwner ==
    /\ [](Running("safeIncrementMutuxExample") =>
            /\ fatal = "none"
            /\ \A t \in DOMAIN gs :
                 Runs(t, "unlock") => counter.mu.locked /\ Holders = {t}
            /\ Holders = {} => ~counter.mu.locked)
    /\ [][Running("safeIncrementMutuxExample") =>
            \A t \in DOMAIN gs :
                /\ t \notin Holders /\ gs'[t].pc \in {"M16", "M25"} =>
                      /\ Runs(t, "lock")
                      /\ ~counter.mu.locked
                      /\ counter'.mu.locked
                /\ t \in Holders /\ gs'[t].pc \notin
                        {"M16", "M17", "M10", "M10b", "M11", "M18", "M19", "M25", "M26", "M27"} =>
                      /\ Runs(t, "unlock")
                      /\ counter.mu.locked
                      /\ ~counter'.mu.locked
                      /\ gs'[t].pc \in {"M20", "M39b"}]_vars

\* a SafeInc call and GetValue have both released the mutex
C22_Witness ==
    /\ Running("safeIncrementMutuxExample")
    /\ gs[0].pc = "M39b"
    /\ \E t \in Spawned : gs[t].pc = "M20"
    /\ ~counter.mu.locked

\* the n-th Fibonacci number, from 0, 1
Fib(n) ==
    LET RECURSIVE f(_)
        f(k) == IF k = 0 THEN 0 ELSE IF k = 1 THEN 1 ELSE f(k - 1) + f(k - 2)
    IN  f(n)

\* selectEx: the number of values the consumer goroutine has received from c
NumReceived ==
    IF ~Running("selectEx") \/ 1 \notin DOMAIN gs THEN 0
    ELSE gs[1].loc.i + (IF gs[1].pc \in {"L249b", "L250"} THEN 1 ELSE 0)

\* selectEx: the lines the consumer has printed, in order
NumberLines ==
    SelectSeq(out, LAMBDA ln : ln \notin {<<"quit">>, <<"no channel ready. Executing default case">>})

\* the main goroutine is inside fibonacci, past the initialisation of x and y
InFibonacciLoop == gs[0].pc \in {"L225", "L227", "L229", "L231", "L232", "L236", "L237", "L238"}

\* C23: in selectEx the k-th value the consumer receives from c is the k-th
\* Fibonacci number and the lines it prints are 0, 1, 1, 2, 3, 5, 8, 13, 21,
\* 34 in that order; (x, y) is the pair of consecutive Fibonacci numbers whose
\* index is the number of values delivered; x and y change only in the step
\* of line 229, to (y, x + y), line 229 is entered only by the select
\* committing `c <- x` with x delivered to the consumer, and the default case
\* leaves x and y unchanged.
C23_FibonacciInOrder ==
    /\ [](Running("selectEx") =>
            /\ NumReceived <= SelectExCount
            /\ 1 \in DOMAIN gs /\ gs[1].pc \in {"L249b", "L250"} =>
                  gs[1].loc.v = Fib(gs[1].loc.i)
            /\ InFibonacciLoop =>
                  LET n == IF gs[0].pc = "L229" THEN NumReceived - 1 ELSE NumReceived
                  IN  gs[0].loc.x = Fib(n) /\ gs[0].loc.y = Fib(n + 1)
            /\ Len(NumberLines) = NumReceived - (IF 1 \in DOMAIN gs /\ gs[1].pc = "L249b" THEN 1 ELSE 0)
            /\ \A k \in 1..Len(NumberLines) : NumberLines[k] = <<ToString(Fib(k - 1))>>
            /\ MainDone =>
                  NumberLines = << <<"0">>, <<"1">>, <<"1">>, <<"2">>, <<"3">>,
                                   <<"5">>, <<"8">>, <<"13">>, <<"21">>, <<"34">> >>)
    /\ [][Running("selectEx") /\ InFibonacciLoop =>
            /\ gs'[0].loc.x # gs[0].loc.x \/ gs'[0].loc.y # gs[0].loc.y =>
                  /\ gs[0].pc = "L229"
                  /\ gs'[0].loc.x = gs[0].loc.y
                  /\ gs'[0].loc.y = gs[0].loc.x + gs[0].loc.y
            /\ gs[0].pc # "L229" /\ gs'[0].pc = "L229" =>
                  /\ FibSelects
                  /\ ReceiverWaitsOnC
                  /\ gs'[1].pc = "L249b"
                  /\ gs'[1].loc.v = gs[0].loc.x
            /\ gs[0].pc \in {"L236", "L237", "L238"} => gs'[0].loc.x = gs[0].loc.x /\ gs'[0].loc.y = gs[0].loc.y]_vars

\* the consumer holds its tenth value, 34, after default has run
C23_Witness ==
    /\ Running("selectEx")
    /\ 1 \in DOMAIN gs
    /\ gs[1].pc = "L249b"
    /\ gs[1].loc.i = 9
    /\ gs[1].loc.v = 34
    /\ gs[0].loc.defaultExecuted

\* the lines "quit" in out
QuitLines == {k \in 1..Len(out) : out[k] = <<"quit">>}

\* C24: in selectEx fibonacci leaves its loop only through line 231, entered
\* only by the select committing `<-quit` while the consumer is parked in its
\* send on quit; then the consumer has received SelectExCount values and
\* printed them; no fatal error occurs; and when every goroutine keeps being
\* scheduled, selectEx returns, with SelectExCount values delivered on c, one
\* value delivered on quit and "quit" printed once.
C24_QuitAfterTen ==
    /\ [](Running("selectEx") =>
            /\ fatal = "none"
            /\ gs[0].st # "Blocked"
            /\ gs[0].pc \in {"L231", "L232", "L255"} =>
                  /\ NumReceived = SelectExCount
                  /\ Len(NumberLines) = SelectExCount
                  /\ gs[1].pc = "L253"
                  /\ chans["quit"].sendq = <<>>
                  /\ chans["c"].recvq = <<>>
                  /\ gs[0].loc["_"] = 0
            /\ Cardinality(QuitLines) = (IF gs[0].pc \in {"L232", "L255"} THEN 1 ELSE 0))
    /\ [][Running("selectEx") =>
            /\ gs[0].pc # "L231" /\ gs'[0].pc = "L231" =>
                  /\ FibSelects
                  /\ SenderWaitsOnQuit
                  /\ gs[1].pc = "L252"
                  /\ gs'[1].pc = "L253"
            /\ gs[0].pc # "L232" /\ gs'[0].pc = "L232" => gs[0].pc = "L231"
            /\ gs[0].pc # "L255" /\ gs'[0].pc = "L255" => gs[0].pc = "L232"
            /\ ~MainDone /\ MainDone' => gs[0].pc = "L255"]_vars
    /\ (Running("selectEx") ~> (MainDone /\ NumReceived = SelectExCount /\ Cardinality(QuitLines) = 1))

\* selectEx has returned after ten values and quit
C24_Witness ==
    /\ Running("selectEx")
    /\ MainDone
    /\ gs[0].pc = "L255"
    /\ NumReceived = SelectExCount
    /\ out[Len(out)] = <<"quit">>

\* C25: in selectEx a receiver parked on c and a sender parked on quit never
\* coexist: each queue holds at most the consumer goroutine, which is parked
\* either in the receive of line 249 or in the send of line 252; so every
\* execution of the select finds at most one ready case.
C25_NeverBothReady ==
    Running("selectEx") /\ {"c", "quit"} \subseteq DOMAIN chans =>
        /\ ~(ReceiverWaitsOnC /\ SenderWaitsOnQuit)
        /\ chans["c"].sendq = <<>> /\ chans["quit"].recvq = <<>>
        /\ Len(chans["c"].recvq) <= 1 /\ Len(chans["quit"].sendq) <= 1
        /\ ReceiverWaitsOnC => chans["c"].recvq[1].g = 1 /\ gs[1].pc = "L249" /\ gs[1].st = "Blocked"
        /\ SenderWaitsOnQuit => chans["quit"].sendq[1].g = 1 /\ gs[1].pc = "L252" /\ gs[1].st = "Blocked"
        /\ \A t \in DOMAIN gs :
             Runs(t, "select") => Cardinality(ReadyCases(RT, Instr(t))) <= 1

\* the select is about to run with the quit case alone ready, after it has
\* run with the c case alone ready
C25_Witness ==
    /\ Running("selectEx")
    /\ gs[0].pc = "L227"
    /\ SenderWaitsOnQuit
    /\ ~ReceiverWaitsOnC
    /\ Cardinality(ReadyCases(RT, Instr(0))) = 1

====
